---- MODULE Spec2Model ----
\* Model of the team memory game component (MemoryGame, first component of
\* src/frontend/app/ui/MemoryGame.tsx): the card fetch, the round builder and
\* the turn/match state machine with its mismatch timer.
\*
\* React semantics the model relies on: an event handler runs against the
\* state of the last committed render, its setState calls are batched into
\* one render, and the effects of that render (cleanup of the previous effect
\* first, when a dependency changed) are flushed before the next event is
\* dispatched.  One action is therefore one handler together with the renders
\* and effect runs it causes.
EXTENDS Integers, Sequences, FiniteSets, TLC

\* ------------------------------------------------------------------ bounds

\* The round size.  The source uses the literal 15 (startGame,
\* newRoundSameTeams, gameComplete, the Start button); the model scales it so
\* that complete rounds are reachable.
RoundSize == 3

\* Number of distinct streams the random source can produce in one handler.
NumSeeds == 2

\* ------------------------------------------------------------------ values

\* JavaScript null (for string | null values).
NULL == "null"

\* JavaScript truthiness of a string | null value: null and "" are falsy.
Falsy(x) == x = NULL \/ x = ""

TeamIndexes == {0, 1}

\* Team names are sequences of characters, so that trim() can be computed.
DefaultName1 == <<"T", "e", "a", "m", " ", "1">>
DefaultName2 == <<"T", "e", "a", "m", " ", "2">>
DefaultColor1 == "#22c55e"
DefaultColor2 == "#a855f7"

DefaultTeams ==
  [i \in TeamIndexes |->
     IF i = 0 THEN [name |-> DefaultName1, color |-> DefaultColor1, score |-> 0]
              ELSE [name |-> DefaultName2, color |-> DefaultColor2, score |-> 0]]

\* What the user can type into a name field / pick in a colour field: the
\* name inputs are the ones canStart rejects (empty, blank).
NameChoices == {<<>>, <<" ">>}
ColorChoices == {"#ff0000"}

\* error: string | null.  The messages are kept apart by kind; found is the
\* count interpolated into the "Not enough rows" message.
NoError == [kind |-> "null", found |-> 0]
ApiError == [kind |-> "API error", found |-> 0]
ThrownError == [kind |-> "message", found |-> 0]
FailedToLoad == [kind |-> "Failed to load cards", found |-> 0]
NotEnoughRows(n) == [kind |-> "Not enough rows", found |-> n]

\* matchedById = {}
EmptyLedger == [x \in {} |-> 0]

\* ------------------------------------------------------------------ cards

Card(i) == [id |-> ToString(i), question |-> "q", answer |-> "a"]

GoodCards(n) == [i \in 1..n |-> Card(i)]

\* The card lists the API is modelled to return: none, too few cards, one
\* more than enough, and lists holding an unusable row (empty id, null
\* question, null answer) or a repeated id.
CardLists ==
  { <<>>,
    GoodCards(RoundSize - 1),
    GoodCards(RoundSize + 1),
    Append(GoodCards(RoundSize), [id |-> "", question |-> "q", answer |-> "a"]),
    Append(GoodCards(RoundSize - 1),
           [id |-> ToString(RoundSize), question |-> NULL, answer |-> "a"]),
    Append(GoodCards(RoundSize - 1),
           [id |-> ToString(RoundSize), question |-> "q", answer |-> NULL]),
    Append(GoodCards(RoundSize), Card(1)) }

\* How the fetch can settle.
Responses ==
  { [kind |-> "ok", cards |-> l] : l \in CardLists }
    \cup { [kind |-> k, cards |-> <<>>] :
             k \in {"noCardsField", "httpError", "badJson", "rejected",
                    "rejectedNoMessage"} }

\* ------------------------------------------------------------------ state

VARIABLES
  allCards,            \* Card[]
  loading,             \* boolean
  error,               \* string | null
  started,             \* boolean
  teams,               \* Team[2]
  startingTeamIndex,   \* 0 | 1
  roundCards,          \* Card[]
  questionOrder,       \* Card[]
  answerOrder,         \* Card[]
  revealedQuestionId,  \* string | null
  revealedAnswerId,    \* string | null
  matchedById,         \* Record<string, number>
  currentTeamIndex,    \* 0 | 1
  busy,                \* boolean
  timer,               \* TRUE while the mismatch setTimeout is pending
  fetch,               \* "pending" | "settled": the promise of load()
  cancelled,           \* the fetch effect's cancelled flag (set on unmount)
  lastEvent            \* history: the last operation and its outcome

\* The state of the team-less component; its loading, error, fetch and
\* cancelled are the variables of the same names above.
VARIABLES
  loadedCards,         \* Card[] (cards in the source)
  answers,             \* the shuffled answer tiles (by card)
  selectedQ,           \* string | null
  selectedA,           \* string | null
  matched,             \* Set<string>
  clears               \* the number of pending clear timeouts

vars ==
  <<allCards, loading, error, started, teams, startingTeamIndex, roundCards,
    questionOrder, answerOrder, revealedQuestionId, revealedAnswerId,
    matchedById, currentTeamIndex, busy, timer, fetch, cancelled, lastEvent,
    loadedCards, answers, selectedQ, selectedA, matched, clears>>

\* The component's React state (and its pending timer) as one record, so
\* that handlers and effects are functions from state to state.
State ==
  [allCards |-> allCards, loading |-> loading, error |-> error,
   started |-> started, teams |-> teams,
   startingTeamIndex |-> startingTeamIndex, roundCards |-> roundCards,
   questionOrder |-> questionOrder, answerOrder |-> answerOrder,
   revealedQuestionId |-> revealedQuestionId,
   revealedAnswerId |-> revealedAnswerId, matchedById |-> matchedById,
   currentTeamIndex |-> currentTeamIndex, busy |-> busy, timer |-> timer]

Commit(s) ==
  /\ allCards' = s.allCards
  /\ loading' = s.loading
  /\ error' = s.error
  /\ started' = s.started
  /\ teams' = s.teams
  /\ startingTeamIndex' = s.startingTeamIndex
  /\ roundCards' = s.roundCards
  /\ questionOrder' = s.questionOrder
  /\ answerOrder' = s.answerOrder
  /\ revealedQuestionId' = s.revealedQuestionId
  /\ revealedAnswerId' = s.revealedAnswerId
  /\ matchedById' = s.matchedById
  /\ currentTeamIndex' = s.currentTeamIndex
  /\ busy' = s.busy
  /\ timer' = s.timer
  /\ UNCHANGED <<loadedCards, answers, selectedQ, selectedA, matched, clears>>

\* The history record: the operation, the phase of the turn/match state
\* machine it arrived in, and how it ended.
Event(op, during, outcome) == [op |-> op, during |-> during, outcome |-> outcome]

Init ==
  /\ allCards = <<>>
  /\ loading = TRUE
  /\ error = NoError
  /\ started = FALSE
  /\ teams = DefaultTeams
  /\ startingTeamIndex = 0
  /\ roundCards = <<>>
  /\ questionOrder = <<>>
  /\ answerOrder = <<>>
  /\ revealedQuestionId = NULL
  /\ revealedAnswerId = NULL
  /\ matchedById = EmptyLedger
  /\ currentTeamIndex = 0
  /\ busy = FALSE
  /\ timer = FALSE
  /\ fetch = "pending"
  /\ cancelled = FALSE
  /\ lastEvent = Event("mount", "loading", "ok")
  /\ loadedCards = <<>>
  /\ answers = <<>>
  /\ selectedQ = NULL
  /\ selectedA = NULL
  /\ matched = {}
  /\ clears = 0

\* --------------------------------------------------------- pure functions

\* Math.random() over one handler: stream `seed`, draw number n (from 0),
\* scaled to an index below k, i.e. Math.floor(Math.random() * k).
Seeds == 0..(NumSeeds - 1)

RandomIndex(seed, n, k) == (seed * (n + 1) + n) % k

\* Variant: the element is copied, not exchanged.
SwapOverwrites(a, x, y) == [a EXCEPT ![x] = a[y]]

Swap(a, x, y) == [a EXCEPT ![x] = a[y], ![y] = a[x]]

\* The loop of shuffle: i is the (0-based) loop index, n the draws used.
RECURSIVE FisherYates(_, _, _, _)
FisherYates(a, i, seed, n) ==
  IF i <= 0 THEN a
  ELSE LET j == RandomIndex(seed, n, i + 1)
       IN FisherYates(Swap(a, i + 1, j + 1), i - 1, seed, n + 1)

\* shuffle(arr), reading the random stream from draw n on.
shuffle(arr, seed, n) == FisherYates(arr, Len(arr) - 1, seed, n)

\* Number of draws one shuffle of arr consumes.
Draws(arr) == IF Len(arr) = 0 THEN 0 ELSE Len(arr) - 1

\* arr.filter(pred) for the usable-card predicate.
IsUsable(c) == ~Falsy(c.id) /\ c.question # NULL /\ c.answer # NULL

\* Variant: no card is filtered out.
usableKeepsAll(cards) == cards

usable(cards) == SelectSeq(cards, IsUsable)

\* arr.slice(0, n)
Slice(arr, n) == SubSeq(arr, 1, IF Len(arr) < n THEN Len(arr) ELSE n)

IsSpace(ch) == ch = " "

\* String.prototype.trim
RECURSIVE TrimLeft(_)
TrimLeft(str) ==
  IF str # <<>> /\ IsSpace(Head(str)) THEN TrimLeft(Tail(str)) ELSE str

RECURSIVE TrimRight(_)
TrimRight(str) ==
  IF str # <<>> /\ IsSpace(str[Len(str)])
  THEN TrimRight(SubSeq(str, 1, Len(str) - 1)) ELSE str

Trim(str) == TrimRight(TrimLeft(str))

canStart(s) == Trim(s.teams[0].name) # <<>> /\ Trim(s.teams[1].name) # <<>>

\* Variant: the scores are left as they are.
ZeroScoresKeeps(ts) == ts

\* prev.map((t) => ({ ...t, score: 0 }))
ZeroScores(ts) == [i \in TeamIndexes |-> [ts[i] EXCEPT !.score = 0]]

\* matchedById[id] !== undefined
IsMatched(ledger, id) == id \in DOMAIN ledger

totalMatches(s) == Cardinality(DOMAIN s.matchedById)

gameComplete(s) == s.started /\ totalMatches(s) = RoundSize

\* ---------------------------------------------------------------- handlers

\* The round built by startGame / newRoundSameTeams from the usable cards.
BuildRound(s, seed) ==
  LET u == usable(s.allCards)
      selected == Slice(shuffle(u, seed, 0), RoundSize)
      n1 == Draws(u)
      n2 == n1 + Draws(selected)
  IN [s EXCEPT !.roundCards = selected,
               !.questionOrder = shuffle(selected, seed, n1),
               !.answerOrder = shuffle(selected, seed, n2)]

\* Variant: the round starts with whoever was active before.
startGameKeepsTurn(s, seed) ==
  LET u == usable(s.allCards) IN
  IF Len(u) < RoundSize
  THEN [s EXCEPT !.error = NotEnoughRows(Len(u))]
  ELSE [BuildRound(s, seed) EXCEPT
          !.matchedById = EmptyLedger,
          !.revealedQuestionId = NULL,
          !.revealedAnswerId = NULL,
          !.busy = FALSE,
          !.teams = ZeroScores(s.teams),
          !.started = TRUE]

\* Variant: the session is reset before the usable cards are counted (the
\* order of newRoundSameTeams).
startGameResetsFirst(s, seed) ==
  LET r == [s EXCEPT !.matchedById = EmptyLedger,
                     !.revealedQuestionId = NULL,
                     !.revealedAnswerId = NULL,
                     !.busy = FALSE,
                     !.teams = ZeroScores(s.teams),
                     !.currentTeamIndex = s.startingTeamIndex]
      u == usable(s.allCards)
  IN IF Len(u) < RoundSize
     THEN [r EXCEPT !.error = NotEnoughRows(Len(u))]
     ELSE [BuildRound(r, seed) EXCEPT !.started = TRUE]

startGame(s, seed) ==
  LET u == usable(s.allCards) IN
  IF Len(u) < RoundSize
  THEN [s EXCEPT !.error = NotEnoughRows(Len(u))]
  ELSE [BuildRound(s, seed) EXCEPT
          !.matchedById = EmptyLedger,
          !.revealedQuestionId = NULL,
          !.revealedAnswerId = NULL,
          !.busy = FALSE,
          !.teams = ZeroScores(s.teams),
          !.currentTeamIndex = s.startingTeamIndex,
          !.started = TRUE]

\* Variant: the cooldown flag is left as it is.
resetToSetupKeepsBusy(s) ==
  [s EXCEPT !.started = FALSE,
            !.roundCards = <<>>,
            !.questionOrder = <<>>,
            !.answerOrder = <<>>,
            !.matchedById = EmptyLedger,
            !.revealedQuestionId = NULL,
            !.revealedAnswerId = NULL,
            !.teams = ZeroScores(s.teams),
            !.currentTeamIndex = s.startingTeamIndex]

resetToSetup(s) ==
  [s EXCEPT !.started = FALSE,
            !.roundCards = <<>>,
            !.questionOrder = <<>>,
            !.answerOrder = <<>>,
            !.matchedById = EmptyLedger,
            !.revealedQuestionId = NULL,
            !.revealedAnswerId = NULL,
            !.busy = FALSE,
            !.teams = ZeroScores(s.teams),
            !.currentTeamIndex = s.startingTeamIndex]

\* Variant: the reveal pointers are carried over into the new round.
newRoundKeepsReveal(s, seed) ==
  LET r == [s EXCEPT !.teams = ZeroScores(s.teams),
                     !.currentTeamIndex = s.startingTeamIndex,
                     !.matchedById = EmptyLedger,
                     !.busy = FALSE]
      u == usable(s.allCards)
  IN IF Len(u) < RoundSize
     THEN [r EXCEPT !.error = NotEnoughRows(Len(u))]
     ELSE BuildRound(r, seed)

\* Variant: the scores are carried over into the new round.
newRoundKeepsScores(s, seed) ==
  LET r == [s EXCEPT !.currentTeamIndex = s.startingTeamIndex,
                     !.matchedById = EmptyLedger,
                     !.revealedQuestionId = NULL,
                     !.revealedAnswerId = NULL,
                     !.busy = FALSE]
      u == usable(s.allCards)
  IN IF Len(u) < RoundSize
     THEN [r EXCEPT !.error = NotEnoughRows(Len(u))]
     ELSE BuildRound(r, seed)

newRoundSameTeams(s, seed) ==
  LET r == [s EXCEPT !.teams = ZeroScores(s.teams),
                     !.currentTeamIndex = s.startingTeamIndex,
                     !.matchedById = EmptyLedger,
                     !.revealedQuestionId = NULL,
                     !.revealedAnswerId = NULL,
                     !.busy = FALSE]
      u == usable(s.allCards)
  IN IF Len(u) < RoundSize
     THEN [r EXCEPT !.error = NotEnoughRows(Len(u))]
     ELSE BuildRound(r, seed)

\* Variant: a side with a pending reveal accepts no other tile.
handleQuestionClickKeepsPending(s, card) ==
  IF ~s.started \/ s.busy THEN s
  ELSE IF IsMatched(s.matchedById, card.id) THEN s
  ELSE IF s.revealedQuestionId # NULL THEN s
  ELSE [s EXCEPT !.revealedQuestionId = card.id]

\* Variant: the handler does not look at the ledger.
handleQuestionClickOnMatched(s, card) ==
  IF ~s.started \/ s.busy THEN s
  ELSE IF s.revealedQuestionId = card.id THEN s
  ELSE [s EXCEPT !.revealedQuestionId = card.id]

\* Variant: the handler does not look at busy.
handleQuestionClickWhileBusy(s, card) ==
  IF ~s.started THEN s
  ELSE IF IsMatched(s.matchedById, card.id) THEN s
  ELSE IF s.revealedQuestionId = card.id THEN s
  ELSE [s EXCEPT !.revealedQuestionId = card.id]

handleQuestionClick(s, card) ==
  IF ~s.started \/ s.busy THEN s
  ELSE IF IsMatched(s.matchedById, card.id) THEN s
  ELSE IF s.revealedQuestionId = card.id THEN s
  ELSE [s EXCEPT !.revealedQuestionId = card.id]

\* Variant: an answer tile is accepted only once a question is revealed.
handleAnswerClickNeedsQuestion(s, card) ==
  IF ~s.started \/ s.busy THEN s
  ELSE IF IsMatched(s.matchedById, card.id) THEN s
  ELSE IF s.revealedAnswerId = card.id THEN s
  ELSE IF s.revealedQuestionId = NULL THEN s
  ELSE [s EXCEPT !.revealedAnswerId = card.id]

\* Variant: the answer handler writes the question side's pointer.
handleAnswerClickSetsQuestion(s, card) ==
  IF ~s.started \/ s.busy THEN s
  ELSE IF IsMatched(s.matchedById, card.id) THEN s
  ELSE IF s.revealedAnswerId = card.id THEN s
  ELSE [s EXCEPT !.revealedQuestionId = card.id]

\* Variant: the handler does not look at the ledger.
handleAnswerClickOnMatched(s, card) ==
  IF ~s.started \/ s.busy THEN s
  ELSE IF s.revealedAnswerId = card.id THEN s
  ELSE [s EXCEPT !.revealedAnswerId = card.id]

handleAnswerClick(s, card) ==
  IF ~s.started \/ s.busy THEN s
  ELSE IF IsMatched(s.matchedById, card.id) THEN s
  ELSE IF s.revealedAnswerId = card.id THEN s
  ELSE [s EXCEPT !.revealedAnswerId = card.id]

\* ------------------------------------------------------ evaluation effect

\* The effect's dependency array.
Deps(s) ==
  <<s.revealedQuestionId, s.revealedAnswerId, s.started, s.currentTeamIndex>>

\* Variant: the effect returns no cleanup, so a pending timeout survives.
EffectCleanupKeepsTimer(s) == s

\* return () => clearTimeout(timer)
EffectCleanup(s) == [s EXCEPT !.timer = FALSE]

\* Variant: the ledger credits the starting team instead of the active one.
EvaluationEffectCreditsStarter(s) ==
  IF ~s.started THEN s
  ELSE IF Falsy(s.revealedQuestionId) \/ Falsy(s.revealedAnswerId) THEN s
  ELSE IF s.revealedQuestionId = s.revealedAnswerId
  THEN [s EXCEPT
          !.matchedById = (s.revealedQuestionId :> s.startingTeamIndex) @@ @,
          !.teams = [idx \in TeamIndexes |->
                       IF idx = s.currentTeamIndex
                       THEN [s.teams[idx] EXCEPT !.score = @ + 1]
                       ELSE s.teams[idx]],
          !.revealedQuestionId = NULL,
          !.revealedAnswerId = NULL]
  ELSE [s EXCEPT !.busy = TRUE, !.timer = TRUE]

\* Variant: a mismatch sets busy but schedules no timeout.
EvaluationEffectNoTimer(s) ==
  IF ~s.started THEN s
  ELSE IF Falsy(s.revealedQuestionId) \/ Falsy(s.revealedAnswerId) THEN s
  ELSE IF s.revealedQuestionId = s.revealedAnswerId
  THEN [s EXCEPT
          !.matchedById = (s.revealedQuestionId :> s.currentTeamIndex) @@ @,
          !.teams = [idx \in TeamIndexes |->
                       IF idx = s.currentTeamIndex
                       THEN [s.teams[idx] EXCEPT !.score = @ + 1]
                       ELSE s.teams[idx]],
          !.revealedQuestionId = NULL,
          !.revealedAnswerId = NULL]
  ELSE [s EXCEPT !.busy = TRUE]

\* Variant: a match replaces the ledger instead of extending it.
EvaluationEffectForgetsLedger(s) ==
  IF ~s.started THEN s
  ELSE IF Falsy(s.revealedQuestionId) \/ Falsy(s.revealedAnswerId) THEN s
  ELSE IF s.revealedQuestionId = s.revealedAnswerId
  THEN [s EXCEPT
          !.matchedById = (s.revealedQuestionId :> s.currentTeamIndex),
          !.teams = [idx \in TeamIndexes |->
                       IF idx = s.currentTeamIndex
                       THEN [s.teams[idx] EXCEPT !.score = @ + 1]
                       ELSE s.teams[idx]],
          !.revealedQuestionId = NULL,
          !.revealedAnswerId = NULL]
  ELSE [s EXCEPT !.busy = TRUE, !.timer = TRUE]

\* Variant: a match passes the turn to the other team.
EvaluationEffectPassesTurn(s) ==
  IF ~s.started THEN s
  ELSE IF Falsy(s.revealedQuestionId) \/ Falsy(s.revealedAnswerId) THEN s
  ELSE IF s.revealedQuestionId = s.revealedAnswerId
  THEN [s EXCEPT
          !.matchedById = (s.revealedQuestionId :> s.currentTeamIndex) @@ @,
          !.teams = [idx \in TeamIndexes |->
                       IF idx = s.currentTeamIndex
                       THEN [s.teams[idx] EXCEPT !.score = @ + 1]
                       ELSE s.teams[idx]],
          !.revealedQuestionId = NULL,
          !.revealedAnswerId = NULL,
          !.currentTeamIndex = IF @ = 0 THEN 1 ELSE 0]
  ELSE [s EXCEPT !.busy = TRUE, !.timer = TRUE]

\* The body of the "when both are revealed" effect.
EvaluationEffect(s) ==
  IF ~s.started THEN s
  ELSE IF Falsy(s.revealedQuestionId) \/ Falsy(s.revealedAnswerId) THEN s
  ELSE IF s.revealedQuestionId = s.revealedAnswerId
  THEN [s EXCEPT
          !.matchedById = (s.revealedQuestionId :> s.currentTeamIndex) @@ @,
          !.teams = [idx \in TeamIndexes |->
                       IF idx = s.currentTeamIndex
                       THEN [s.teams[idx] EXCEPT !.score = @ + 1]
                       ELSE s.teams[idx]],
          !.revealedQuestionId = NULL,
          !.revealedAnswerId = NULL]
  ELSE [s EXCEPT !.busy = TRUE, !.timer = TRUE]

\* Variant: the callback does not clear busy.
TimerCallbackStaysBusy(s) ==
  [s EXCEPT !.revealedQuestionId = NULL,
            !.revealedAnswerId = NULL,
            !.currentTeamIndex = IF @ = 0 THEN 1 ELSE 0,
            !.timer = FALSE]

\* Variant: the callback flips the tiles back but keeps the turn.
TimerCallbackKeepsTurn(s) ==
  [s EXCEPT !.revealedQuestionId = NULL,
            !.revealedAnswerId = NULL,
            !.busy = FALSE,
            !.timer = FALSE]

\* The setTimeout callback.
TimerCallback(s) ==
  [s EXCEPT !.revealedQuestionId = NULL,
            !.revealedAnswerId = NULL,
            !.currentTeamIndex = IF @ = 0 THEN 1 ELSE 0,
            !.busy = FALSE,
            !.timer = FALSE]

\* Rendering after a state update: when a dependency changed since the last
\* commit `prev`, the previous effect's cleanup runs, then the effect; the
\* effect's own updates render again.
RECURSIVE Render(_, _)
Render(prev, s) ==
  IF Deps(prev) = Deps(s) THEN s
  ELSE LET cleaned == EffectCleanup(s)
       IN Render(cleaned, EvaluationEffect(cleaned))

\* ------------------------------------------------------------------ actions

\* What is on screen: the setup panel and the game UI are rendered
\* conditionally, and an unmounted component takes no events.
SetupVisible == ~cancelled /\ ~loading /\ ~started
GameVisible == ~cancelled /\ ~loading /\ started

\* The phase of the turn/match state machine (section 4.3 of the design).
Phase(s) ==
  IF s.loading THEN "loading"
  ELSE IF ~s.started THEN "setup"
  ELSE IF s.busy THEN "cooldown"
  ELSE IF s.revealedQuestionId # NULL \/ s.revealedAnswerId # NULL
    THEN "oneRevealed"
  ELSE IF gameComplete(s) THEN "complete"
  ELSE "idle"

\* The outcome of load() applied to the state (when not cancelled).
LoadOutcome(s, resp) ==
  IF resp.kind = "ok"
    THEN [s EXCEPT !.allCards = resp.cards, !.loading = FALSE]
  ELSE IF resp.kind = "noCardsField"
    THEN [s EXCEPT !.allCards = <<>>, !.loading = FALSE]
  ELSE IF resp.kind = "httpError"
    THEN [s EXCEPT !.error = ApiError, !.loading = FALSE]
  ELSE IF resp.kind \in {"badJson", "rejected"}
    THEN [s EXCEPT !.error = ThrownError, !.loading = FALSE]
  ELSE [s EXCEPT !.error = FailedToLoad, !.loading = FALSE]

\* Variant: load() applies its outcome without looking at cancelled.
FetchSettleIgnoresCancelled(resp) ==
  /\ fetch = "pending"
  /\ fetch' = "settled"
  /\ Commit(Render(State, LoadOutcome(State, resp)))
  /\ lastEvent' = Event("fetch", Phase(State), resp.kind)
  /\ UNCHANGED cancelled

\* The fetch of load() settles (resolves or rejects).
FetchSettle(resp) ==
  /\ fetch = "pending"
  /\ fetch' = "settled"
  /\ Commit(IF cancelled THEN State ELSE Render(State, LoadOutcome(State, resp)))
  /\ lastEvent' = Event("fetch", Phase(State), resp.kind)
  /\ UNCHANGED cancelled

\* The component is torn down: the effects' cleanups run.
Unmount ==
  /\ ~cancelled
  /\ cancelled' = TRUE
  /\ Commit(EffectCleanup(State))
  /\ lastEvent' = Event("unmount", Phase(State), "ok")
  /\ UNCHANGED fetch

SetTeamName(i, name) ==
  /\ SetupVisible
  /\ Commit(Render(State, [State EXCEPT !.teams[i].name = name]))
  /\ lastEvent' = Event("setTeamName", Phase(State), "ok")
  /\ UNCHANGED <<fetch, cancelled>>

SetTeamColor(i, color) ==
  /\ SetupVisible
  /\ Commit(Render(State, [State EXCEPT !.teams[i].color = color]))
  /\ lastEvent' = Event("setTeamColor", Phase(State), "ok")
  /\ UNCHANGED <<fetch, cancelled>>

ResetDefaults ==
  /\ SetupVisible
  /\ Commit(Render(State, [State EXCEPT !.teams = DefaultTeams,
                                        !.startingTeamIndex = 0]))
  /\ lastEvent' = Event("resetDefaults", Phase(State), "ok")
  /\ UNCHANGED <<fetch, cancelled>>

SetStartingTeam(i) ==
  /\ SetupVisible
  /\ Commit(Render(State, [State EXCEPT !.startingTeamIndex = i]))
  /\ lastEvent' = Event("setStartingTeam", Phase(State), "ok")
  /\ UNCHANGED <<fetch, cancelled>>

\* Variant: the button does not look at the number of cards.
StartEnabledIgnoresCards == canStart(State)

\* The Start Game button: disabled={!canStart || allCards.length < 15}.
StartEnabled == canStart(State) /\ Len(allCards) >= RoundSize

StartGame(seed) ==
  /\ SetupVisible
  /\ StartEnabled
  /\ LET h == startGame(State, seed) IN
       /\ Commit(Render(State, h))
       /\ lastEvent' = Event("startGame", Phase(State),
                             IF h.started THEN "ok" ELSE "error")
  /\ UNCHANGED <<fetch, cancelled>>

NewRound(seed) ==
  /\ GameVisible
  /\ LET h == newRoundSameTeams(State, seed) IN
       /\ Commit(Render(State, h))
       /\ lastEvent' = Event("newRound", Phase(State),
                             IF Len(usable(allCards)) < RoundSize
                             THEN "error" ELSE "ok")
  /\ UNCHANGED <<fetch, cancelled>>

ChangeTeams ==
  /\ GameVisible
  /\ Commit(Render(State, resetToSetup(State)))
  /\ lastEvent' = Event("changeTeams", Phase(State), "ok")
  /\ UNCHANGED <<fetch, cancelled>>

\* How a tile click ended: the handler returned early, or the tile was
\* revealed and the evaluation effect found nothing to do, a match or a
\* mismatch.
ClickOutcome(s, h, r) ==
  IF h = s THEN "ignored"
  ELSE IF r.busy THEN "mismatch"
  ELSE IF totalMatches(r) > totalMatches(s) THEN "match"
  ELSE "revealed"

\* A click on the i-th question tile.  (The button's disabled attribute,
\* busy || isMatched, is subsumed by the handler's own guards.)
QuestionClick(i) ==
  /\ GameVisible
  /\ i \in DOMAIN questionOrder
  /\ LET h == handleQuestionClick(State, questionOrder[i])
         r == Render(State, h)
     IN /\ Commit(r)
        /\ lastEvent' = Event("questionClick", Phase(State),
                              ClickOutcome(State, h, r))
  /\ UNCHANGED <<fetch, cancelled>>

AnswerClick(i) ==
  /\ GameVisible
  /\ i \in DOMAIN answerOrder
  /\ LET h == handleAnswerClick(State, answerOrder[i])
         r == Render(State, h)
     IN /\ Commit(r)
        /\ lastEvent' = Event("answerClick", Phase(State),
                              ClickOutcome(State, h, r))
  /\ UNCHANGED <<fetch, cancelled>>

\* The mismatch timeout expires.
TimerFire ==
  /\ ~cancelled
  /\ timer
  /\ Commit(Render(State, TimerCallback(State)))
  /\ lastEvent' = Event("timer", Phase(State), "ok")
  /\ UNCHANGED <<fetch, cancelled>>

Next ==
  \/ \E resp \in Responses : FetchSettle(resp)
  \/ Unmount
  \/ \E i \in TeamIndexes, name \in NameChoices : SetTeamName(i, name)
  \/ \E i \in TeamIndexes, color \in ColorChoices : SetTeamColor(i, color)
  \/ ResetDefaults
  \/ \E i \in TeamIndexes : SetStartingTeam(i)
  \/ \E seed \in Seeds : StartGame(seed)
  \/ \E seed \in Seeds : NewRound(seed)
  \/ ChangeTeams
  \/ \E i \in 1..(RoundSize) : QuestionClick(i)
  \/ \E i \in 1..(RoundSize) : AnswerClick(i)
  \/ TimerFire

Spec == Init /\ [][Next]_vars

\* The browser runs a pending setTimeout callback unless it is cleared.
FairSpec == Spec /\ WF_vars(TimerFire)

\* ------------------------------------------------- the team-less component

\* useState<string>(""): no error.
EmptyError == [kind |-> "", found |-> 0]

\* The team component's own state, which this component does not have.
teamState ==
  <<allCards, started, teams, startingTeamIndex, roundCards, questionOrder,
    answerOrder, revealedQuestionId, revealedAnswerId, matchedById,
    currentTeamIndex, busy, timer>>

\* The selections, the matched set and the pending timeouts as one record.
Selection ==
  [selectedQ |-> selectedQ, selectedA |-> selectedA, matched |-> matched,
   clears |-> clears]

CommitSelection(s) ==
  /\ selectedQ' = s.selectedQ
  /\ selectedA' = s.selectedA
  /\ matched' = s.matched
  /\ clears' = s.clears

VariantInit ==
  /\ allCards = <<>>
  /\ started = FALSE
  /\ teams = DefaultTeams
  /\ startingTeamIndex = 0
  /\ roundCards = <<>>
  /\ questionOrder = <<>>
  /\ answerOrder = <<>>
  /\ revealedQuestionId = NULL
  /\ revealedAnswerId = NULL
  /\ matchedById = EmptyLedger
  /\ currentTeamIndex = 0
  /\ busy = FALSE
  /\ timer = FALSE
  /\ loadedCards = <<>>
  /\ answers = <<>>
  /\ loading = TRUE
  /\ error = EmptyError
  /\ selectedQ = NULL
  /\ selectedA = NULL
  /\ matched = {}
  /\ clears = 0
  /\ fetch = "pending"
  /\ cancelled = FALSE
  /\ lastEvent = Event("mount", "loading", "ok")

\* The dependency array of the match-check effect.
SelectionDeps(s) == <<s.selectedQ, s.selectedA>>

\* Variant: the effect returns no cleanup.
ClearCleanupKeepsTimeout(s) == s

\* return () => clearTimeout(t): the timeout of the last run, if pending.
ClearCleanup(s) == [s EXCEPT !.clears = 0]

\* The body of the "check match when both selected" effect.
MatchCheckEffect(s) ==
  IF Falsy(s.selectedQ) \/ Falsy(s.selectedA) THEN s
  ELSE [s EXCEPT
          !.matched = IF s.selectedQ = s.selectedA
                      THEN @ \cup {s.selectedQ} ELSE @,
          !.clears = @ + 1]

\* The setTimeout callback.
ClearCallback(s) ==
  [s EXCEPT !.selectedQ = NULL, !.selectedA = NULL, !.clears = @ - 1]

\* Rendering after a state update: setMatched does not touch the
\* dependencies, so the effect runs at most once per update.
RenderSelection(prev, s) ==
  IF SelectionDeps(prev) = SelectionDeps(s) THEN s
  ELSE MatchCheckEffect(ClearCleanup(s))

\* The tiles are rendered once the cards are loaded without error.
TilesVisible ==
  ~cancelled /\ ~loading /\ error = EmptyError /\ Len(loadedCards) > 0

\* Where the selection stands when an operation arrives.
SelectionPhase ==
  IF loading THEN "loading"
  ELSE IF clears > 0 THEN "clearPending"
  ELSE IF selectedQ # NULL \/ selectedA # NULL THEN "oneSelected"
  ELSE "idle"

\* How a tile click ended: the same value was set again, or the effect ran
\* and found one side empty, a match or a mismatch.
SelectOutcome(s, r) ==
  IF SelectionDeps(r) = SelectionDeps(s) THEN "unchanged"
  ELSE IF r.clears = 0 THEN "selected"
  ELSE IF r.selectedQ = r.selectedA THEN "match"
  ELSE "mismatch"

\* The fetch of load() settles; answers is the memoised shuffle of the cards.
VariantFetchSettle(resp, seed) ==
  /\ fetch = "pending"
  /\ fetch' = "settled"
  /\ IF cancelled
       THEN UNCHANGED <<loadedCards, answers, error, loading>>
     ELSE IF resp.kind \in {"ok", "noCardsField"}
       THEN /\ loadedCards' = resp.cards
            /\ answers' = shuffle(resp.cards, seed, 0)
            /\ loading' = FALSE
            /\ UNCHANGED error
     ELSE /\ error' = (IF resp.kind = "httpError" THEN ApiError
                       ELSE IF resp.kind \in {"badJson", "rejected"}
                         THEN ThrownError
                       ELSE FailedToLoad)
          /\ loading' = FALSE
          /\ UNCHANGED <<loadedCards, answers>>
  /\ lastEvent' = Event("fetch", SelectionPhase, resp.kind)
  /\ UNCHANGED <<selectedQ, selectedA, matched, clears, cancelled, teamState>>

\* The component is torn down: the effects' cleanups run.
VariantUnmount ==
  /\ ~cancelled
  /\ cancelled' = TRUE
  /\ CommitSelection(ClearCleanup(Selection))
  /\ lastEvent' = Event("unmount", SelectionPhase, "ok")
  /\ UNCHANGED <<loadedCards, answers, loading, error, fetch, teamState>>

\* A click on the i-th question tile: disabled={isMatched},
\* onClick={() => setSelectedQ(q.id)}.
SelectQuestion(i) ==
  /\ TilesVisible
  /\ i \in DOMAIN loadedCards
  /\ loadedCards[i].id \notin matched
  /\ LET r == RenderSelection(Selection,
                              [Selection EXCEPT
                                 !.selectedQ = loadedCards[i].id])
     IN /\ CommitSelection(r)
        /\ lastEvent' = Event("selectQ", SelectionPhase,
                              SelectOutcome(Selection, r))
  /\ UNCHANGED <<loadedCards, answers, loading, error, fetch, cancelled,
                 teamState>>

\* A click on the j-th answer tile.
SelectAnswer(j) ==
  /\ TilesVisible
  /\ j \in DOMAIN answers
  /\ answers[j].id \notin matched
  /\ LET r == RenderSelection(Selection,
                              [Selection EXCEPT !.selectedA = answers[j].id])
     IN /\ CommitSelection(r)
        /\ lastEvent' = Event("selectA", SelectionPhase,
                              SelectOutcome(Selection, r))
  /\ UNCHANGED <<loadedCards, answers, loading, error, fetch, cancelled,
                 teamState>>

\* A clear timeout expires.
ClearFire ==
  /\ ~cancelled
  /\ clears > 0
  /\ CommitSelection(RenderSelection(Selection, ClearCallback(Selection)))
  /\ lastEvent' = Event("clear", SelectionPhase, "ok")
  /\ UNCHANGED <<loadedCards, answers, loading, error, fetch, cancelled,
                 teamState>>

VariantNext ==
  \/ \E resp \in Responses, seed \in Seeds : VariantFetchSettle(resp, seed)
  \/ VariantUnmount
  \/ \E i \in 1..(RoundSize + 1) : SelectQuestion(i)
  \/ \E j \in 1..(RoundSize + 1) : SelectAnswer(j)
  \/ ClearFire

VariantSpec == VariantInit /\ [][VariantNext]_vars

\* ------------------------------------------------------------------ claims

\* The session state a tile click, the timer or a reset can touch.
score(t) == teams[t].score

Other(t) == IF t = 0 THEN 1 ELSE 0

QuestionStep == \E i \in DOMAIN questionOrder : QuestionClick(i)
AnswerStep == \E i \in DOMAIN answerOrder : AnswerClick(i)
ClickStep == QuestionStep \/ AnswerStep
NewRoundStep == \E seed \in Seeds : NewRound(seed)
StartGameStep == \E seed \in Seeds : StartGame(seed)

\* Everything but the history variable is unchanged.
NothingChanges ==
  UNCHANGED <<allCards, loading, error, started, teams, startingTeamIndex,
              roundCards, questionOrder, answerOrder, revealedQuestionId,
              revealedAnswerId, matchedById, currentTeamIndex, busy, timer,
              fetch, cancelled>>

\* The step completes the pair X: one side shows X (and the game accepts
\* clicks), and the step is a click on the other side's tile X.
CompletesPair(X) ==
  /\ started /\ ~busy /\ X # NULL
  /\ \/ /\ revealedAnswerId = X
        /\ \E i \in DOMAIN questionOrder :
             questionOrder[i].id = X /\ QuestionClick(i)
     \/ /\ revealedQuestionId = X
        /\ \E i \in DOMAIN answerOrder :
             answerOrder[i].id = X /\ AnswerClick(i)

\* What evaluation of the matching pair X does while team t is active.
MatchRecorded(X, t) ==
  /\ X \notin DOMAIN matchedById
  /\ matchedById' = (X :> t) @@ matchedById
  /\ score(t)' = score(t) + 1
  /\ teams'[Other(t)] = teams[Other(t)]
  /\ revealedQuestionId' = NULL
  /\ revealedAnswerId' = NULL
  /\ currentTeamIndex' = t
  /\ ~busy' /\ ~timer'

Ids == {ToString(i) : i \in 1..(RoundSize + 1)}

\* C1: when the question tile and the answer tile of the same card id X are
\* both revealed while team t is active, X -> t enters the ledger (where it
\* was not before, and nothing else changes in it), team t's score rises by
\* exactly 1, the other team is unchanged, both reveal pointers are null and
\* team t is still active.
C1_MatchScoresActiveTeam ==
  [][\A X \in Ids : CompletesPair(X) => MatchRecorded(X, currentTeamIndex)]_vars

\* C1 witness: the first scenario of the design: Q1 then A1 by team 0.
C1_Witness ==
  /\ lastEvent = Event("answerClick", "oneRevealed", "match")
  /\ matchedById = ("1" :> 0)
  /\ score(0) = 1 /\ score(1) = 0
  /\ currentTeamIndex = 0
  /\ revealedQuestionId = NULL /\ revealedAnswerId = NULL

\* The step reveals the mismatching pair: one side shows Y and the step is
\* an accepted click on the other side's unmatched tile X # Y.
RevealsMismatch(X, Y) ==
  /\ started /\ ~busy /\ X # Y /\ Y # NULL
  /\ X \notin DOMAIN matchedById
  /\ \/ /\ revealedAnswerId = Y
        /\ \E i \in DOMAIN questionOrder :
             questionOrder[i].id = X /\ QuestionClick(i)
        /\ revealedQuestionId' = X /\ revealedAnswerId' = Y
     \/ /\ revealedQuestionId = Y
        /\ \E i \in DOMAIN answerOrder :
             answerOrder[i].id = X /\ AnswerClick(i)
        /\ revealedAnswerId' = X /\ revealedQuestionId' = Y

\* C2: a mismatching pair leaves the ledger and both scores unchanged and
\* starts the cooldown; when the timer expires both reveal pointers are
\* null, the cooldown flag is cleared, the active team is the other team and
\* no timer is left to toggle it again.
C2_MismatchTogglesTurnOnExpiry ==
  [][ /\ \A X, Y \in Ids :
           RevealsMismatch(X, Y) =>
             /\ UNCHANGED <<matchedById, teams, currentTeamIndex>>
             /\ busy' /\ timer'
      /\ TimerFire =>
           /\ busy
           /\ revealedQuestionId' = NULL /\ revealedAnswerId' = NULL
           /\ ~busy' /\ ~timer'
           /\ currentTeamIndex' = Other(currentTeamIndex)
           /\ UNCHANGED <<matchedById, teams>> ]_vars

\* C2 witness: the second scenario of the design: a mismatch by team 0 on
\* an empty ledger has expired, and team 1 is active.
C2_Witness ==
  /\ lastEvent = Event("timer", "cooldown", "ok")
  /\ matchedById = EmptyLedger
  /\ startingTeamIndex = 0 /\ currentTeamIndex = 1
  /\ score(0) = 0 /\ score(1) = 0
  /\ revealedQuestionId = NULL /\ revealedAnswerId = NULL /\ ~busy

\* A pending timeout belongs to the mismatch on screen.
TimerIsCurrent ==
  timer => /\ started /\ busy
           /\ revealedQuestionId # NULL /\ revealedAnswerId # NULL
           /\ revealedQuestionId # revealedAnswerId

\* C3: New Round and Change Teams during a cooldown cancel the pending
\* callback, and a callback is pending only for the mismatch on screen: after
\* a reset only the expiry of a later mismatch's own timer toggles the active
\* team or clears a reveal pointer.
C3_ResetInvalidatesTimer ==
  /\ []TimerIsCurrent
  /\ [][ /\ (busy /\ (NewRoundStep \/ ChangeTeams)) => (~timer' /\ ~busy')
         /\ (TimerFire => (timer /\ busy)) ]_vars

\* C3 witness: Change Teams arrived during a cooldown and no timer is left.
C3_Witness ==
  /\ lastEvent = Event("changeTeams", "cooldown", "ok")
  /\ ~timer /\ ~started

\* C4: a tile click during the cooldown changes nothing at all (no reveal
\* pointer, ledger, score, active team, timer), so nothing of it is left to
\* act once the cooldown ends.
C4_ClickDuringCooldownDropped ==
  [][(busy /\ ClickStep) => NothingChanges]_vars

\* C4 witness: a question click arrived during a cooldown, which goes on.
C4_Witness ==
  /\ lastEvent = Event("questionClick", "cooldown", "ignored")
  /\ busy /\ timer

\* The step is an accepted click on a side that already shows another tile:
\* tile X of the side showing P # X, X unmatched, no cooldown.
ClicksOtherQuestion(X, P) ==
  /\ started /\ ~busy /\ P # NULL /\ X # P
  /\ revealedQuestionId = P
  /\ X \notin DOMAIN matchedById
  /\ \E i \in DOMAIN questionOrder : questionOrder[i].id = X /\ QuestionClick(i)

ClicksOtherAnswer(X, P) ==
  /\ started /\ ~busy /\ P # NULL /\ X # P
  /\ revealedAnswerId = P
  /\ X \notin DOMAIN matchedById
  /\ \E i \in DOMAIN answerOrder : answerOrder[i].id = X /\ AnswerClick(i)

\* C5 as stated: a side with a pending reveal keeps its reveal pointer when
\* another unmatched tile of that side is clicked.
C5_PendingSideIgnoresOtherTile ==
  [][\A X, P \in Ids :
       /\ ClicksOtherQuestion(X, P) => revealedQuestionId' = P
       /\ ClicksOtherAnswer(X, P) => revealedAnswerId' = P]_vars

\* C5 amended: outside a cooldown, a click on another unmatched tile of a
\* side with a pending reveal moves that side's reveal pointer to the
\* clicked tile and changes nothing else (the other side is empty then, so
\* nothing is evaluated); only a click on the pending tile itself is a no-op.
C5_PendingSideSwitchesTile ==
  [][\A X, P \in Ids :
       /\ ClicksOtherQuestion(X, P) =>
            /\ revealedAnswerId = NULL
            /\ revealedQuestionId' = X
            /\ UNCHANGED <<revealedAnswerId, matchedById, teams,
                           currentTeamIndex, busy, timer, started>>
       /\ ClicksOtherAnswer(X, P) =>
            /\ revealedQuestionId = NULL
            /\ revealedAnswerId' = X
            /\ UNCHANGED <<revealedQuestionId, matchedById, teams,
                           currentTeamIndex, busy, timer, started>>
       /\ (/\ revealedQuestionId = X
           /\ \E i \in DOMAIN questionOrder :
                questionOrder[i].id = X /\ QuestionClick(i)) => NothingChanges
       /\ (/\ revealedAnswerId = X
           /\ \E i \in DOMAIN answerOrder :
                answerOrder[i].id = X /\ AnswerClick(i)) => NothingChanges]_vars

\* C5 witness: with a question pending, a click on a question tile was
\* accepted and the question side still shows one tile.
C5_Witness ==
  /\ lastEvent = Event("questionClick", "oneRevealed", "revealed")
  /\ revealedQuestionId # NULL /\ revealedAnswerId = NULL

\* The step is a click on a tile whose id is in the ledger.
ClicksMatchedTile ==
  \/ \E i \in DOMAIN questionOrder :
       questionOrder[i].id \in DOMAIN matchedById /\ QuestionClick(i)
  \/ \E i \in DOMAIN answerOrder :
       answerOrder[i].id \in DOMAIN matchedById /\ AnswerClick(i)

\* C6: a click on a tile whose id is in the ledger changes nothing (scores,
\* ledger, active team, reveal pointers), and no reveal pointer ever holds an
\* id of the ledger.
C6_MatchedTileInert ==
  /\ [](revealedQuestionId \notin DOMAIN matchedById
        /\ revealedAnswerId \notin DOMAIN matchedById)
  /\ [][ClicksMatchedTile => NothingChanges]_vars

\* C6 witness: after a match, with no cooldown and the answer side empty,
\* a click on an answer tile was ignored: the tile is a matched one.
C6_Witness ==
  /\ lastEvent = Event("answerClick", "idle", "ignored")
  /\ matchedById # EmptyLedger

\* C7: the round is complete exactly when the game is started and the
\* ledger holds RoundSize ids; the match that completes the round leaves the
\* scores standing (they add up to RoundSize); and in a complete round no
\* tile click changes the ledger, a score or anything else.
C7_CompleteRoundIsTerminal ==
  /\ [](gameComplete(State) <=>
          (started /\ Cardinality(DOMAIN matchedById) = RoundSize))
  /\ [](gameComplete(State) => score(0) + score(1) = RoundSize)
  /\ [][ /\ (gameComplete(State) /\ ClickStep) => NothingChanges
         /\ (~gameComplete(State) /\ gameComplete(State)') =>
              /\ score(0)' >= score(0)
              /\ score(1)' >= score(1)
              /\ score(0)' + score(1)' = score(0) + score(1) + 1 ]_vars

\* C7 witness: a click arrived in a complete round that team 0 won alone.
C7_Witness ==
  /\ lastEvent = Event("questionClick", "complete", "ignored")
  /\ gameComplete(State)
  /\ score(0) = RoundSize

\* The session state of a round: everything Start Game and New Round set.
SessionUnchanged ==
  UNCHANGED <<started, roundCards, questionOrder, answerOrder, matchedById,
              teams, currentTeamIndex, revealedQuestionId, revealedAnswerId,
              busy, timer, allCards, loading, startingTeamIndex>>

\* C8: with fewer than RoundSize usable cards, Start Game and New Round
\* report the insufficient-cards error and leave the session as it was; a
\* started game always has RoundSize usable cards.
C8_InsufficientCardsBlocks ==
  /\ [](started => Len(usable(allCards)) >= RoundSize)
  /\ [][ (Len(usable(allCards)) < RoundSize /\ (StartGameStep \/ NewRoundStep))
           => /\ error' = NotEnoughRows(Len(usable(allCards)))
              /\ SessionUnchanged ]_vars

\* C8 witness: Start Game was refused: enough rows, too few usable ones, and
\* the turn indicator still differs from the chosen starting team.
C8_Witness ==
  /\ lastEvent = Event("startGame", "setup", "error")
  /\ error = NotEnoughRows(RoundSize - 1)
  /\ Len(allCards) = RoundSize
  /\ ~started
  /\ currentTeamIndex # startingTeamIndex

Count(seq, x) == Cardinality({i \in DOMAIN seq : seq[i] = x})

Range(seq) == {seq[i] : i \in DOMAIN seq}

IsPermutation(a, b) ==
  /\ Len(a) = Len(b)
  /\ \A x \in Range(a) \cup Range(b) : Count(a, x) = Count(b, x)

\* C9: New Round in a started game builds a round of RoundSize usable cards
\* (both orders permutations of it), empties the ledger, nulls both reveal
\* pointers, ends any cooldown, zeroes both scores, keeps every team's name
\* and colour and keeps the game started.
C9_NewRoundResetsRound ==
  [][NewRoundStep =>
       /\ started'
       /\ Len(roundCards') = RoundSize
       /\ \A c \in Range(roundCards') : IsUsable(c) /\ c \in Range(allCards)
       /\ IsPermutation(questionOrder', roundCards')
       /\ IsPermutation(answerOrder', roundCards')
       /\ matchedById' = EmptyLedger
       /\ revealedQuestionId' = NULL /\ revealedAnswerId' = NULL
       /\ ~busy' /\ ~timer'
       /\ \A t \in TeamIndexes :
            /\ score(t)' = 0
            /\ teams'[t].name = teams[t].name
            /\ teams'[t].color = teams[t].color ]_vars

\* C9 witness: New Round arrived during a cooldown, for teams with a picked
\* colour, and the game goes on.
C9_Witness ==
  /\ lastEvent = Event("newRound", "cooldown", "ok")
  /\ started
  /\ teams[1].color \in ColorChoices

\* The pre-game setup state of the session.
InSetup ==
  /\ ~started
  /\ roundCards = <<>> /\ questionOrder = <<>> /\ answerOrder = <<>>
  /\ matchedById = EmptyLedger
  /\ revealedQuestionId = NULL /\ revealedAnswerId = NULL
  /\ ~busy /\ ~timer
  /\ score(0) = 0 /\ score(1) = 0

\* C10: Change Teams leaves the session in pre-game setup, and the session
\* stays there (no click or timer changes it) while the game is not started.
C10_ChangeTeamsReturnsToSetup ==
  /\ [](~started => InSetup)
  /\ [][ChangeTeams => (started /\ InSetup')]_vars
  /\ [][(~started /\ ~started') =>
          UNCHANGED <<roundCards, questionOrder, answerOrder, matchedById,
                      revealedQuestionId, revealedAnswerId, busy, timer>>]_vars

\* C10 witness: Change Teams arrived with one tile revealed.
C10_Witness ==
  /\ lastEvent = Event("changeTeams", "oneRevealed", "ok")
  /\ InSetup

\* The ids of a sequence of cards, in order.
IdsOf(cards) == [i \in DOMAIN cards |-> cards[i].id]

\* C11: in a started game the question order and the answer order both have
\* RoundSize tiles and are permutations of the same multiset of ids, the ids
\* of the cards selected for the round.
C11_OrdersArePermutations ==
  started =>
    /\ Len(questionOrder) = RoundSize
    /\ Len(answerOrder) = RoundSize
    /\ IsPermutation(IdsOf(questionOrder), IdsOf(answerOrder))
    /\ IsPermutation(IdsOf(questionOrder), IdsOf(roundCards))

\* C11 witness: a started round whose two sides are shuffled differently,
\* and neither as the cards were selected.
C11_Witness ==
  /\ started
  /\ questionOrder # answerOrder
  /\ questionOrder # roundCards
  /\ answerOrder # roundCards

\* A round was built: RoundSize cards, each a usable card of the fetched
\* list, none taken more often than the fetched list holds it.
RoundBuilt(cards) ==
  /\ Len(cards) = RoundSize
  /\ \A c \in Range(cards) :
       /\ IsUsable(c)
       /\ Count(cards, c) <= Count(allCards, c)

\* C12: Start Game and New Round build a round exactly when at least
\* RoundSize fetched cards are usable (id, question and answer present); the
\* round then holds exactly RoundSize cards, all of them usable fetched cards,
\* no fetched card twice; otherwise the error is reported and no round built.
C12_RoundBuiltIffEnoughUsable ==
  /\ [](started => RoundBuilt(roundCards))
  /\ [][(StartGameStep \/ NewRoundStep) =>
          IF Len(usable(allCards)) >= RoundSize
          THEN started' /\ RoundBuilt(roundCards') /\ error' = error
          ELSE /\ error' = NotEnoughRows(Len(usable(allCards)))
               /\ UNCHANGED <<started, roundCards>> /\ ~started]_vars

\* C12 witness: a round was built from a fetched list longer than a round,
\* and a fetched card was left out.
C12_Witness ==
  /\ lastEvent = Event("startGame", "setup", "ok")
  /\ started
  /\ Len(allCards) > RoundSize
  /\ \E i \in DOMAIN allCards : allCards[i] \notin Range(roundCards)

ScoreDecreases == \E t \in TeamIndexes : score(t)' < score(t)

ScoresZeroed == \A t \in TeamIndexes : score(t)' = 0

\* C13 as stated: Start Game and New Round set the scores to 0 and no other
\* step decreases a score.
C13_OnlyStartAndNewRoundLowerScores ==
  [][ /\ (StartGameStep /\ started') => ScoresZeroed
      /\ NewRoundStep => ScoresZeroed
      /\ ScoreDecreases => (StartGameStep \/ NewRoundStep) ]_vars

\* C13 amended: Start Game, New Round and Change Teams set both scores to 0
\* (Reset Defaults too, in setup, where they are 0 already), and no other
\* step decreases a score.
C13_OnlyResetsLowerScores ==
  [][ /\ (StartGameStep /\ started') => ScoresZeroed
      /\ (NewRoundStep \/ ChangeTeams \/ ResetDefaults) => ScoresZeroed
      /\ ScoreDecreases => (NewRoundStep \/ ChangeTeams)
      /\ ScoreDecreases => ScoresZeroed ]_vars

\* C13 witness: Change Teams arrived in a complete round, whose scores added
\* up to RoundSize, and both scores are 0.
C13_Witness ==
  /\ lastEvent = Event("changeTeams", "complete", "ok")
  /\ score(0) = 0 /\ score(1) = 0

\* The step starts or resets a round.
RoundStartOrReset ==
  lastEvent'.op \in {"startGame", "newRound", "changeTeams"}

\* C14: a step that neither starts nor resets a round keeps every ledger
\* entry, with its winning team; Start Game and New Round leave the ledger
\* empty.
C14_LedgerGrowsWithinRound ==
  [][ /\ ~RoundStartOrReset =>
           \A id \in DOMAIN matchedById :
             id \in DOMAIN matchedById' /\ matchedById'[id] = matchedById[id]
      /\ (StartGameStep \/ NewRoundStep) => matchedById' = EmptyLedger ]_vars

\* C14 witness: a second match was recorded, by the other team than the
\* first.
C14_Witness ==
  /\ lastEvent.outcome = "match"
  /\ \E x, y \in DOMAIN matchedById : matchedById[x] # matchedById[y]

\* The ways the fetch can fail that the claims name: a non-success status,
\* a body that is not JSON, a JSON body without the cards field.
FailedResponseKinds == {"httpError", "badJson", "noCardsField"}

\* C15: when the fetch of a mounted component ends with a non-success HTTP
\* status or a malformed payload, the component holds an error, an empty
\* card list and loading = false, and the fetch is not issued again.
C15_FailedFetchSetsError ==
  (lastEvent.op = "fetch" /\ lastEvent.outcome \in FailedResponseKinds
     /\ ~cancelled)
    => /\ error # NoError
       /\ allCards = <<>>
       /\ ~loading
       /\ fetch = "settled"

\* The error left by a failed fetch.
FetchFailed == error \in {ApiError, ThrownError, FailedToLoad}

\* C16: once the fetch has failed the failure stays on record and the card
\* list stays empty, and in every such state the game is not started.
C16_FailedFetchBlocksStart ==
  /\ [](FetchFailed => (~started /\ allCards = <<>>))
  /\ [][FetchFailed => FetchFailed']_vars

\* C16 witness: after a failed fetch the user has set up valid teams and
\* picked the starting team; the game is not started.
C16_Witness ==
  /\ error = ApiError
  /\ lastEvent = Event("setStartingTeam", "setup", "ok")
  /\ startingTeamIndex = 1
  /\ canStart(State)
  /\ ~started

\* C17: whenever the fetch of a mounted component has settled, some
\* operation is available that issues it again.
C17_RefreshOffered ==
  (fetch = "settled" /\ ~cancelled) => ENABLED (Next /\ fetch' = "pending")

\* Idle: a started game with nothing revealed and no cooldown.
Idle ==
  started /\ ~busy /\ revealedQuestionId = NULL /\ revealedAnswerId = NULL

\* C18: from Idle, a click on an unmatched question tile sets the question
\* reveal pointer to its id and a click on an unmatched answer tile sets the
\* answer reveal pointer; the other pointer, the ledger, the scores, the
\* active team and the cooldown flag are unchanged.
C18_FirstRevealSetsOnePointer ==
  [][ /\ \A i \in DOMAIN questionOrder :
           (/\ Idle
            /\ questionOrder[i].id \notin DOMAIN matchedById
            /\ QuestionClick(i))
             => /\ revealedQuestionId' = questionOrder[i].id
                /\ UNCHANGED <<revealedAnswerId, matchedById, teams,
                               currentTeamIndex, busy, timer>>
      /\ \A i \in DOMAIN answerOrder :
           (/\ Idle
            /\ answerOrder[i].id \notin DOMAIN matchedById
            /\ AnswerClick(i))
             => /\ revealedAnswerId' = answerOrder[i].id
                /\ UNCHANGED <<revealedQuestionId, matchedById, teams,
                               currentTeamIndex, busy, timer>> ]_vars

\* C18 witness: from Idle with a match on the ledger, an answer tile was
\* revealed and the question side is still empty.
C18_Witness ==
  /\ lastEvent = Event("answerClick", "idle", "revealed")
  /\ revealedAnswerId # NULL /\ revealedQuestionId = NULL
  /\ matchedById # EmptyLedger

\* C19: in a cooldown the game is started and both reveal pointers hold
\* ids, different ones; and from one cooldown state to the next both
\* pointers keep their ids.
C19_CooldownShowsMismatch ==
  /\ [](busy => /\ started
                /\ revealedQuestionId # NULL /\ revealedAnswerId # NULL
                /\ revealedQuestionId # revealedAnswerId)
  /\ [][(busy /\ busy') =>
          UNCHANGED <<revealedQuestionId, revealedAnswerId>>]_vars

\* C19 witness: an answer click arrived during a cooldown, which goes on
\* with the two tiles it shows.
C19_Witness ==
  /\ lastEvent = Event("answerClick", "cooldown", "ignored")
  /\ busy
  /\ revealedQuestionId # revealedAnswerId

\* C20: while the component is mounted, every cooldown ends: from a state
\* with the cooldown flag set, a state with the flag cleared and both reveal
\* pointers null is reached (by expiry or reset), or the component is torn
\* down.
C20_CooldownEnds ==
  (busy /\ ~cancelled)
    ~> ((~busy /\ revealedQuestionId = NULL /\ revealedAnswerId = NULL)
          \/ cancelled)

\* C20 witness: a cooldown has expired in a round that has a match on the
\* ledger, and clicks are accepted again.
C20_Witness ==
  /\ lastEvent = Event("timer", "cooldown", "ok")
  /\ ~busy /\ ~timer
  /\ revealedQuestionId = NULL /\ revealedAnswerId = NULL
  /\ matchedById # EmptyLedger

\* The ledger entries won by team t.
WonBy(t) == {x \in DOMAIN matchedById : matchedById[x] = t}

\* C21: each team's score is the number of ledger entries it won; so the
\* two scores add up to the size of the ledger, which is at most the round
\* size.
C21_ScoresCountLedger ==
  /\ \A t \in TeamIndexes : score(t) = Cardinality(WonBy(t))
  /\ score(0) + score(1) = Cardinality(DOMAIN matchedById)
  /\ score(0) + score(1) <= RoundSize

\* C21 witness: a round was completed in which both teams scored.
C21_Witness ==
  /\ gameComplete(State)
  /\ score(0) >= 1 /\ score(1) >= 1
  /\ score(0) + score(1) = RoundSize

\* A reveal pointer is null or the id of an unmatched card of the round.
LiveReveal(p) ==
  p # NULL =>
    /\ \E i \in DOMAIN roundCards : roundCards[i].id = p
    /\ p \notin DOMAIN matchedById

\* C22: each non-null reveal pointer is the id of a card of the current
\* round that is not in the ledger; and after New Round or Change Teams
\* both pointers are null.
C22_RevealsAreLive ==
  /\ [](LiveReveal(revealedQuestionId) /\ LiveReveal(revealedAnswerId))
  /\ [][(NewRoundStep \/ ChangeTeams) =>
          (revealedQuestionId' = NULL /\ revealedAnswerId' = NULL)]_vars

\* C22 witness: New Round was pressed during a cooldown, with two tiles
\* showing, and the new round shows none.
C22_Witness ==
  /\ lastEvent = Event("newRound", "cooldown", "ok")
  /\ revealedQuestionId = NULL /\ revealedAnswerId = NULL
  /\ started

\* The state a click on a question tile / an answer tile leaves, as
\* QuestionClick and AnswerClick commit it.
AfterQuestionClick(s, card) == Render(s, handleQuestionClick(s, card))
AfterAnswerClick(s, card) == Render(s, handleAnswerClick(s, card))

\* The unmatched tiles of each side.
OpenQuestions ==
  {i \in DOMAIN questionOrder : questionOrder[i].id \notin DOMAIN matchedById}
OpenAnswers ==
  {j \in DOMAIN answerOrder : answerOrder[j].id \notin DOMAIN matchedById}

\* C23: from an Idle state, for every unmatched question tile Q and
\* unmatched answer tile A, revealing A then Q leaves the same state
\* (ledger, scores, active team, reveal pointers, cooldown flag and timer)
\* as revealing Q then A, whether the two match or not.
C23_RevealOrderIrrelevant ==
  Idle =>
    \A i \in OpenQuestions, j \in OpenAnswers :
      AfterQuestionClick(AfterAnswerClick(State, answerOrder[j]),
                         questionOrder[i])
        = AfterAnswerClick(AfterQuestionClick(State, questionOrder[i]),
                           answerOrder[j])

\* C23 witness: a pair was just matched answer first, and the Idle state
\* it left has both a matching and a mismatching pair still to reveal.
C23_Witness ==
  /\ lastEvent = Event("questionClick", "oneRevealed", "match")
  /\ Idle
  /\ \E i \in OpenQuestions, j \in OpenAnswers :
       questionOrder[i].id = answerOrder[j].id
  /\ \E i \in OpenQuestions, j \in OpenAnswers :
       questionOrder[i].id # answerOrder[j].id

\* C24: the active team index is 0 or 1; after a Start Game that starts the
\* round, after New Round and after Change Teams it is the configured
\* starting team; and a step that changes it is one of those three or the
\* expiry of the mismatch timeout.
C24_TurnFollowsStartingTeam ==
  /\ [](currentTeamIndex \in TeamIndexes)
  /\ [][((StartGameStep /\ started') \/ NewRoundStep \/ ChangeTeams) =>
          currentTeamIndex' = startingTeamIndex']_vars
  /\ [][currentTeamIndex' # currentTeamIndex =>
          (StartGameStep \/ NewRoundStep \/ ChangeTeams \/ TimerFire)]_vars

\* C24 witness: with the second team configured to start, New Round was
\* pressed mid-game, and the second team has the turn.
C24_Witness ==
  /\ lastEvent = Event("newRound", "idle", "ok")
  /\ startingTeamIndex = 1
  /\ currentTeamIndex = 1
  /\ matchedById = EmptyLedger

\* C25: when the component was torn down before the fetch settles, the
\* late completion, resolved or rejected, changes none of the card list,
\* the error and the loading flag.
C25_LateFetchIgnored ==
  [][\A resp \in Responses :
       (cancelled /\ FetchSettle(resp)) =>
         UNCHANGED <<allCards, error, loading>>]_vars

\* C25 witness: the fetch resolved with cards after the teardown, and the
\* component still has no cards and is still loading.
C25_Witness ==
  /\ lastEvent = Event("fetch", "loading", "ok")
  /\ cancelled /\ fetch = "settled"
  /\ loading /\ allCards = <<>> /\ error = NoError

\* What the match check adds to the matched set for the pair (q, a).
MatchOf(q, a) == IF q = a THEN {q} ELSE {}

====
